---- MODULE Spec2Model ----
(***************************************************************************)
(* Trace-context propagation across the three connected Lambda functions   *)
(* of rust-otel-connected-lambdas:                                         *)
(*   post-function          HTTP in -> HTTP out -> SQS publish             *)
(*   read-function          HTTP in -> JSON response                       *)
(*   handle-change-function SQS batch consumer                             *)
(*                                                                         *)
(* Strings that carry a trace context are modelled by their split on "-":  *)
(* a sequence of numeric fields, -1 standing for a field that is not hex.  *)
(* "" is <<>>.  A W3C traceparent "00-T-S-F" is <<0, T, S, F>>.            *)
(***************************************************************************)
EXTENDS Integers, Sequences, FiniteSets, TLC

(* ------------------------------ bounds -------------------------------- *)

\* trace ids and span ids range over 0..MaxId, 0 being the all-zero id
MaxId == 2

\* timestamps returned by the downstream service or the clock
MaxTimestamp == 2

\* invocations served by one warm execution context
MaxInvocations == 2

\* records in one SQS batch
MaxBatch == 2

(* --------------------------- program constants ------------------------ *)

StatusOk == 200

(* ------------------------------ values -------------------------------- *)

Ids == 0..MaxId
ValidIds == 1..MaxId
Timestamps == 1..MaxTimestamp
Descriptions == {"From Read", "x"}
Uuids == {"u1", "u2"}

None == <<>>
Some(x) == <<x>>

\* SpanContext::empty_context(): all-zero ids
EmptyContext == [trace_id |-> 0, span_id |-> 0, flags |-> 0]

IsValid(cx) == cx.trace_id # 0 /\ cx.span_id # 0

\* the strings a header or a correlation_id may hold
EmptyString == <<>>
Garbage == <<-1>>
Traceparents == {<<0, t, s, f>> : t \in Ids, s \in Ids, f \in 0..2}
BadVersion == {<<255, t, s, 1>> : t \in ValidIds, s \in ValidIds}
Strings == {EmptyString, Garbage} \cup Traceparents \cup BadVersion

(* ------------------- TraceContextPropagator (W3C codec) ---------------- *)

\* propagator.extract(&fields): total; anything but a well-formed
\* traceparent of a valid span context yields the empty context
Extract(fields) ==
  IF "traceparent" \notin DOMAIN fields THEN EmptyContext
  ELSE LET h == fields["traceparent"] IN
       IF Len(h) < 4 THEN EmptyContext
       ELSE IF h[1] < 0 \/ h[1] > 254 THEN EmptyContext
       ELSE IF h[1] = 0 /\ Len(h) # 4 THEN EmptyContext
       ELSE IF h[2] < 0 \/ h[3] < 0 \/ h[4] < 0 THEN EmptyContext
       ELSE IF h[1] = 0 /\ h[4] > 2 THEN EmptyContext
       ELSE LET cx == [trace_id |-> h[2], span_id |-> h[3], flags |-> h[4] % 2]
            IN IF IsValid(cx) THEN cx ELSE EmptyContext

\* propagator.inject_context(&ctx, &mut fields): writes traceparent and
\* tracestate when the context holds a valid span context, else nothing
Inject(cx) ==
  IF IsValid(cx)
  THEN ("traceparent" :> <<0, cx.trace_id, cx.span_id, cx.flags % 2>>)
         @@ ("tracestate" :> EmptyString)
  ELSE <<>>

WellFormed(s) == IsValid(Extract("traceparent" :> s))

(* ------------------------------- JSON --------------------------------- *)

\* a JSON text: either not parsable at all, or an object given by its
\* members in order
InvalidJson == [syntax |-> "invalid", members |-> <<>>]
Object(ms) == [syntax |-> "object", members |-> ms]
Member(k, v) == [k |-> k, v |-> v]

Keys(text) == {text.members[i].k : i \in DOMAIN text.members}
Get(text, key) ==
  text.members[CHOOSE i \in DOMAIN text.members : text.members[i].k = key].v

\* serde_json::from_str into a struct with the given required fields:
\* every field must be present (no #[serde(default)]), others are ignored
FromJson(text, required) ==
  IF text.syntax = "object" /\ required \subseteq Keys(text)
  THEN [ok |-> TRUE, value |-> [k \in required |-> Get(text, k)]]
  ELSE [ok |-> FALSE, value |-> <<>>]

(* ------------------------------ state --------------------------------- *)

VARIABLES
  \* process environment (the names of the variables that are set)
  env,
  \* post-function: main
  ppc, config, panicMsg, handled,
  \* post-function: handler, one invocation
  hpc, request, span, trace_parent, headers, sent, response, parsed,
  payload, published, sendFailed, result,
  \* read-function: handler, one invocation
  rpc, rrequest, rspan, rresult,
  \* handle-change-function: handler, one invocation
  cpc, batch, idx, cspan, recordSpan, processed, children, cresult

postVars == <<ppc, config, panicMsg, handled, hpc, request, span, trace_parent,
              headers, sent, response, parsed, payload, published,
              sendFailed, result>>
readVars == <<rpc, rrequest, rspan, rresult>>
changeVars == <<cpc, batch, idx, cspan, recordSpan, processed, children,
                cresult>>
vars == <<env, postVars, readVars, changeVars>>

Required == {"AGENT_ADDRESS", "FUNCTION_NAME", "API_URL", "QUEUE_URL"}
EnvNames == Required \cup {"RUST_LOG"}

\* EnvFilter::from_default_env(): without RUST_LOG only ERROR is enabled,
\* so the INFO spans of #[instrument] are disabled; RUST_LOG (set to info
\* or lower) enables them
InfoEnabled == "RUST_LOG" \in env

NoResult == [kind |-> "none", status |-> 0]
OkResult(st) == [kind |-> "ok", status |-> st]

(* ------------------------ post-function: main -------------------------- *)

\* Expect as unwrap_or_default(): startup goes on with an empty value
ExpectUnchecked(name, next) ==
  /\ ppc' = next
  /\ config' = config \cup {name}
  /\ panicMsg' = panicMsg

\* env::var(name).expect("<name> is required")
Expect(name, next) ==
  IF name \in env
  THEN /\ ppc' = next
       /\ config' = config \cup {name}
       /\ panicMsg' = panicMsg
  ELSE /\ ppc' = "panicked"
       /\ config' = config
       /\ panicMsg' = <<name, "is required">>

handlerVars == <<hpc, request, span, trace_parent, headers, sent, response,
                 parsed, payload, published, sendFailed, result>>

PostMain_AgentAddress ==
  /\ ppc = "agent_address"
  /\ Expect("AGENT_ADDRESS", "function_name")
  /\ UNCHANGED <<env, readVars, changeVars, handled, handlerVars>>

PostMain_FunctionName ==
  /\ ppc = "function_name"
  /\ Expect("FUNCTION_NAME", "install")
  /\ UNCHANGED <<env, readVars, changeVars, handled, handlerVars>>

\* new_pipeline()...install_simple(): Err(e) => panic!("error starting! {}")
PostMain_InstallPipeline ==
  /\ ppc = "install"
  /\ \E ok \in BOOLEAN :
       IF ok THEN ppc' = "clients" /\ panicMsg' = panicMsg
       ELSE ppc' = "panicked" /\ panicMsg' = <<"error starting!">>
  /\ UNCHANGED <<env, readVars, changeVars, config, handled, handlerVars>>

\* subscriber init, SQS client, reqwest::Client::builder().build().unwrap()
PostMain_Clients ==
  /\ ppc = "clients"
  /\ \E ok \in BOOLEAN :
       IF ok THEN ppc' = "api_url" /\ panicMsg' = panicMsg
       ELSE ppc' = "panicked" /\ panicMsg' = <<"called Result::unwrap() on an Err value">>
  /\ UNCHANGED <<env, readVars, changeVars, config, handled, handlerVars>>

PostMain_ApiUrl ==
  /\ ppc = "api_url"
  /\ Expect("API_URL", "queue_url")
  /\ UNCHANGED <<env, readVars, changeVars, handled, handlerVars>>

\* the last read; run(service_fn(..)) follows
PostMain_QueueUrl ==
  /\ ppc = "queue_url"
  /\ Expect("QUEUE_URL", "serving")
  /\ UNCHANGED <<env, readVars, changeVars, handled, handlerVars>>

(* ----------------------- post-function: handler ------------------------ *)

\* the traceparent header of an inbound request, if any
InboundHeaders ==
  {None, Some(Garbage)} \cup {Some(<<0, t, s, 1>>) : t \in ValidIds, s \in ValidIds}

\* what the downstream GET can come back with
ErrResponse == [ok |-> FALSE, status |-> 0, body |-> InvalidJson]
Bodies ==
  {InvalidJson, Object(<<Member("timestamp", 1)>>)}
  \cup {Object(<<Member("timestamp", ts), Member("description", d)>>) :
          ts \in Timestamps, d \in Descriptions}
Responses ==
  {ErrResponse} \cup {[ok |-> TRUE, status |-> st, body |-> b] :
                        st \in {StatusOk, 500}, b \in Bodies}

\* #[instrument(name = "Handler")]: a new root span when INFO is enabled;
\* the request is not consulted.  Disabled: Span::current() is a none span.
NewSpan(t, s) ==
  IF InfoEnabled THEN [trace_id |-> t, span_id |-> s, flags |-> 1]
  ELSE EmptyContext

PostHandler_Enter ==
  /\ ppc = "serving"
  /\ hpc = "idle"
  /\ handled < MaxInvocations
  /\ \E req \in InboundHeaders, t \in ValidIds, s \in ValidIds :
       /\ request' = req
       /\ span' = NewSpan(t, s)
  /\ hpc' = "entered"
  /\ trace_parent' = None
  /\ headers' = <<>>
  /\ sent' = None
  /\ response' = ErrResponse
  /\ parsed' = None
  /\ payload' = None
  /\ published' = None
  /\ sendFailed' = FALSE
  /\ result' = NoResult
  /\ UNCHANGED <<env, readVars, changeVars, ppc, config, panicMsg, handled>>

\* lines 104-115: every carrier entry becomes a header; the traceparent
\* value is captured on the way
CaptureTraceParent(fields) ==
  IF "traceparent" \in DOMAIN fields THEN Some(fields["traceparent"]) ELSE None

CarrierToHeaders(fields) == [k \in DOMAIN fields |-> fields[k]]

\* lines 97-115
PostHandler_Inject ==
  /\ hpc = "entered"
  /\ LET fields == Inject(span) IN
       /\ trace_parent' = CaptureTraceParent(fields)
       /\ headers' = CarrierToHeaders(fields)
  /\ hpc' = "injected"
  /\ UNCHANGED <<env, readVars, changeVars, ppc, config, panicMsg, handled, request, span, sent, response,
                 parsed, payload, published, sendFailed, result>>

\* lines 117-124, 146-148: the GET with the headers; the status is not read
PostHandler_Send ==
  /\ hpc = "injected"
  /\ sent' = Some(headers)
  /\ \E r \in Responses :
       /\ response' = r
       /\ hpc' = IF r.ok THEN "json" ELSE "respond"
  /\ UNCHANGED <<env, readVars, changeVars, ppc, config, panicMsg, handled, request, span, trace_parent,
                 headers, parsed, payload, published, sendFailed, result>>

\* lines 125-127, 141-143: r.json::<LambdaResponse>()
PostHandler_Json ==
  /\ hpc = "json"
  /\ LET m == FromJson(response.body, {"timestamp", "description"}) IN
       IF m.ok THEN parsed' = Some(m.value) /\ hpc' = "post"
       ELSE parsed' = None /\ hpc' = "respond"
  /\ UNCHANGED <<env, readVars, changeVars, ppc, config, panicMsg, handled, request, span, trace_parent,
                 headers, sent, response, payload, published, sendFailed,
                 result>>

\* lines 131-136
NewMessageBody(b, uuid) ==
  [timestamp |-> b["timestamp"], description |-> b["description"],
   id |-> uuid, correlation_id |-> EmptyString]

\* SetCorrelation with the captured traceparent dropped
SetCorrelationDropped(p, tp) == [p EXCEPT !.correlation_id = EmptyString]

\* post_message, lines 165-170
SetCorrelation(p, tp) ==
  IF tp # None THEN [p EXCEPT !.correlation_id = tp[1]]
  ELSE [p EXCEPT !.correlation_id = EmptyString]

\* serde_json::to_string(&payload): members in field order
ToJson(p) ==
  Object(<<Member("timestamp", p.timestamp),
           Member("description", p.description),
           Member("id", p.id),
           Member("correlation_id", p.correlation_id)>>)

\* lines 128-139 and post_message (158-182); `let _ =` drops the Result
PostHandler_PostMessage ==
  /\ hpc = "post"
  /\ \E uuid \in Uuids, sendOk \in BOOLEAN :
       LET p == NewMessageBody(parsed[1], uuid)
           message == ToJson(SetCorrelation(p, trace_parent))
       IN /\ payload' = Some(p)
          /\ published' = IF sendOk THEN Some(message) ELSE None
          /\ sendFailed' = ~sendOk
  /\ hpc' = "respond"
  /\ UNCHANGED <<env, readVars, changeVars, ppc, config, panicMsg, handled, request, span, trace_parent,
                 headers, sent, response, parsed, result>>

\* lines 150-155
PostHandler_Respond ==
  /\ hpc = "respond"
  /\ result' = OkResult(StatusOk)
  /\ hpc' = "idle"
  /\ handled' = handled + 1
  /\ UNCHANGED <<env, readVars, changeVars, ppc, config, panicMsg, request, span, trace_parent, headers,
                 sent, response, parsed, payload, published, sendFailed>>

(* ------------------- spans of the tracing subscriber ------------------- *)

\* the "Handler" span #[instrument] opens around one invocation of a
\* handler: a root span with fresh ids, absent when INFO is filtered out
HandlerSpan(t, s) ==
  [enabled |-> InfoEnabled, trace_id |-> t, span_id |-> s,
   parent |-> EmptyContext, kind |-> "INTERNAL"]

NoSpan ==
  [enabled |-> FALSE, trace_id |-> 0, span_id |-> 0,
   parent |-> EmptyContext, kind |-> "INTERNAL"]

\* span.set_parent(context): replaces the parent context of the span;
\* nothing happens on a disabled span
SetParent(sp, cx) == IF sp.enabled THEN [sp EXCEPT !.parent = cx] ELSE sp

\* span.record("otel.kind", ..)
RecordKind(sp, k) == IF sp.enabled THEN [sp EXCEPT !.kind = k] ELSE sp

\* the trace a span is exported in: its parent's when it has one
TraceOf(sp) == IF IsValid(sp.parent) THEN sp.parent.trace_id ELSE sp.trace_id

IsRoot(sp) == ~IsValid(sp.parent)

(* ----------------------- read-function: handler ------------------------ *)

\* the traceparent header of the API Gateway request: not there, there
\* with bytes that are no visible ASCII (to_str() fails), or a string
AbsentHeader == [kind |-> "absent", value |-> EmptyString]
BytesHeader == [kind |-> "bytes", value |-> EmptyString]
StrHeader(s) == [kind |-> "str", value |-> s]
HeaderValues == {AbsentHeader, BytesHeader} \cup {StrHeader(s) : s \in Strings}

NoReadResult == [kind |-> "none", status |-> 0, body |-> InvalidJson]
PanicReadResult == [kind |-> "panic", status |-> 0, body |-> InvalidJson]
OkReadResult(st, b) == [kind |-> "ok", status |-> st, body |-> b]

\* generate_context and serde_json::to_string(&s)
AddedContextJson(ts) ==
  Object(<<Member("timestamp", ts), Member("description", "From Read")>>)

\* the runtime hands an event to handler; #[instrument(name = "Handler")]
ReadHandler_Enter ==
  /\ rpc = "idle"
  /\ \E h \in HeaderValues, t \in ValidIds, s \in ValidIds :
       /\ rrequest' = h
       /\ rspan' = HandlerSpan(t, s)
  /\ rresult' = NoReadResult
  /\ rpc' = "entered"
  /\ UNCHANGED <<env, postVars, changeVars>>

\* lines 70-82: headers.get("traceparent").unwrap().to_str().unwrap()
HeaderString(h) ==
  IF h.kind = "str" THEN [ok |-> TRUE, value |-> h.value]
  ELSE [ok |-> FALSE, value |-> EmptyString]

\* lines 67-100
ReadHandler_Body ==
  /\ rpc = "entered"
  /\ LET v == HeaderString(rrequest) IN
       IF v.ok
       THEN /\ rspan' = SetParent(rspan, Extract("traceparent" :> v.value))
            /\ \E ts \in Timestamps :
                 rresult' = OkReadResult(StatusOk, AddedContextJson(ts))
       ELSE /\ rspan' = rspan
            /\ rresult' = PanicReadResult
  /\ rpc' = "idle"
  /\ UNCHANGED <<env, postVars, changeVars, rrequest>>

(* ------------------- handle-change-function: handler ------------------- *)

MessageFields == {"timestamp", "description", "id", "correlation_id"}

\* correlation ids a producer may have put in a message
CorrelationIds ==
  {EmptyString, Garbage} \cup {<<0, t, s, 1>> : t \in ValidIds, s \in ValidIds}

BusinessMembers ==
  <<Member("timestamp", 1), Member("description", "x"), Member("id", "u1")>>

\* record.body: None, text that is no JSON, a message without the
\* correlation_id member, or a full message
RecordBodies ==
  {None, Some(InvalidJson), Some(Object(BusinessMembers))}
  \cup {Some(Object(Append(BusinessMembers, Member("correlation_id", c)))) :
          c \in CorrelationIds}

Batches == UNION {[1..n -> RecordBodies] : n \in 1..MaxBatch}

NoChangeResult == "none"

\* the runtime hands a batch to handler; #[instrument(name = "Handler")]
ChangeHandler_Enter ==
  /\ cpc = "idle"
  /\ \E b \in Batches, t \in ValidIds, s \in ValidIds :
       /\ batch' = b
       /\ cspan' = HandlerSpan(t, s)
  /\ idx' = 1
  /\ recordSpan' = <<>>
  /\ processed' = <<>>
  /\ children' = <<>>
  /\ cresult' = NoChangeResult
  /\ cpc' = "records"
  /\ UNCHANGED <<env, postVars, readVars>>

\* line 35: serde_json::from_str(record.body.unwrap().as_ref()).unwrap()
ParseRecord(body) ==
  IF body = None THEN [ok |-> FALSE, value |-> <<>>]
  ELSE FromJson(body[1], MessageFields)

\* Span::current() inside the closure: the invocation's Handler span
CurrentSpan(sp, i) == sp

\* tracing::info_span!("Processing Record"): created under the current
\* span and dropped at once; it is never entered
ProcessingRecordSpan(sp) ==
  IF sp.enabled
  THEN <<[name |-> "Processing Record", trace_id |-> TraceOf(sp),
          parent_span_id |-> sp.span_id]>>
  ELSE <<>>

\* lines 34-46: the closure, for the record at idx
ChangeHandler_Record ==
  /\ cpc = "records"
  /\ idx <= Len(batch)
  /\ LET r == ParseRecord(batch[idx]) IN
       IF r.ok
       THEN LET fields == "traceparent" :> r.value["correlation_id"]
                context == Extract(fields)
                cur == CurrentSpan(cspan, idx)
                sp == RecordKind(SetParent(cur, context), "SERVER")
            IN /\ cspan' = sp
               /\ recordSpan' = Append(recordSpan, cur.span_id)
               /\ processed' = Append(processed, idx)
               /\ children' = children \o ProcessingRecordSpan(sp)
               /\ idx' = idx + 1
               /\ cpc' = cpc
               /\ cresult' = cresult
       ELSE \* the panic unwinds out of for_each and handler
            /\ cpc' = "idle"
            /\ cresult' = "panic"
            /\ UNCHANGED <<cspan, recordSpan, processed, children, idx>>
  /\ UNCHANGED <<env, postVars, readVars, batch>>

\* line 47: Ok(())
ChangeHandler_Return ==
  /\ cpc = "records"
  /\ idx > Len(batch)
  /\ cresult' = "ok"
  /\ cpc' = "idle"
  /\ UNCHANGED <<env, postVars, readVars, batch, idx, cspan, recordSpan,
                 processed, children>>

(* --------------------------- specifications ---------------------------- *)

PostIdle ==
  /\ ppc = "agent_address"
  /\ config = {}
  /\ panicMsg = <<>>
  /\ handled = 0
  /\ hpc = "idle"
  /\ request = None
  /\ span = EmptyContext
  /\ trace_parent = None
  /\ headers = <<>>
  /\ sent = None
  /\ response = ErrResponse
  /\ parsed = None
  /\ payload = None
  /\ published = None
  /\ sendFailed = FALSE
  /\ result = NoResult

ReadIdle ==
  /\ rpc = "idle"
  /\ rrequest = AbsentHeader
  /\ rspan = NoSpan
  /\ rresult = NoReadResult

ChangeIdle ==
  /\ cpc = "idle"
  /\ batch = <<>>
  /\ idx = 1
  /\ cspan = NoSpan
  /\ recordSpan = <<>>
  /\ processed = <<>>
  /\ children = <<>>
  /\ cresult = NoChangeResult

\* post-function, from process start
PostInit ==
  /\ env \in SUBSET EnvNames
  /\ PostIdle /\ ReadIdle /\ ChangeIdle

PostNext ==
  \/ PostMain_AgentAddress
  \/ PostMain_FunctionName
  \/ PostMain_InstallPipeline
  \/ PostMain_Clients
  \/ PostMain_ApiUrl
  \/ PostMain_QueueUrl
  \/ PostHandler_Enter
  \/ PostHandler_Inject
  \/ PostHandler_Send
  \/ PostHandler_Json
  \/ PostHandler_PostMessage
  \/ PostHandler_Respond

SpecPost == PostInit /\ [][PostNext]_vars

\* read-function and handle-change-function, once their runtime serves:
\* main got past init_datadog_pipeline, so both names it reads are set
Started == {{"AGENT_ADDRESS", "FUNCTION_NAME"} \cup l : l \in SUBSET {"RUST_LOG"}}

ReadInit ==
  /\ env \in Started
  /\ PostIdle /\ ReadIdle /\ ChangeIdle

ReadNext ==
  \/ ReadHandler_Enter
  \/ ReadHandler_Body

SpecRead == ReadInit /\ [][ReadNext]_vars

ChangeInit ==
  /\ env \in Started
  /\ PostIdle /\ ReadIdle /\ ChangeIdle

ChangeNext ==
  \/ ChangeHandler_Enter
  \/ ChangeHandler_Record
  \/ ChangeHandler_Return

SpecChange == ChangeInit /\ [][ChangeNext]_vars

(* ------------------------------- claims -------------------------------- *)

Missing == Required \ env

\* the order main reads the configuration in
ReadOrder == <<"AGENT_ADDRESS", "FUNCTION_NAME", "API_URL", "QUEUE_URL">>
EarlierThan(name) ==
  {ReadOrder[i] : i \in {j \in 1..4 : \E k \in 1..4 : k > j /\ ReadOrder[k] = name}}

\* C1 (read-function, stated as claimed): a request whose traceparent
\* header is absent, not a string, or not a well-formed traceparent is
\* answered with HTTP 200 under a root Handler span; it never fails.
C1_DegradesToRoot ==
  (rresult.kind # "none"
     /\ ~(rrequest.kind = "str" /\ WellFormed(rrequest.value)))
  => /\ rresult.kind = "ok"
     /\ rresult.status = StatusOk
     /\ (rspan.enabled => IsRoot(rspan))

\* records of a batch, by position
SyntaxMalformed(k) ==
  batch[k] = None \/ batch[k][1].syntax = "invalid"
FullMessage(k) ==
  batch[k] # None /\ FromJson(batch[k][1], MessageFields).ok
Finished == cpc = "idle" /\ cresult # NoChangeResult
\* what the platform learns: Ok(()) names no record, a failed invocation
\* fails the whole batch
ReportedFailed == IF cresult = "panic" THEN 1..Len(batch) ELSE {}
Processed == {processed[i] : i \in DOMAIN processed}

\* C2 (consumer, stated as claimed): in a batch of full messages and
\* records whose body is missing or no JSON, exactly the latter are
\* reported as failed and every other record is processed.
C2_BatchIsolation ==
  (Finished /\ \A k \in DOMAIN batch : SyntaxMalformed(k) \/ FullMessage(k))
  => /\ ReportedFailed = {k \in DOMAIN batch : SyntaxMalformed(k)}
     /\ Processed = {k \in DOMAIN batch : ~SyntaxMalformed(k)}

NoCorrelation(k) ==
  /\ batch[k] # None
  /\ FromJson(batch[k][1], MessageFields \ {"correlation_id"}).ok
  /\ \/ "correlation_id" \notin Keys(batch[k][1])
     \/ Get(batch[k][1], "correlation_id") = EmptyString

\* C3 (consumer, stated as claimed): when every record of the batch has
\* its business fields and a correlation_id that is "" or omitted, the
\* invocation succeeds, every record is processed, and the span is a root.
C3_EmptyCorrelationIsRoot ==
  (Finished /\ \A k \in DOMAIN batch : NoCorrelation(k))
  => /\ cresult = "ok"
     /\ Processed = DOMAIN batch
     /\ (cspan.enabled => IsRoot(cspan))

\* C4 (post-function, stated as claimed): an invocation whose SQS
\* send_message failed ends in an error, not in a success response.
C4_PublishFailureSurfaced ==
  (sendFailed /\ result.kind # "none") => result.kind = "err"

\* the trace id a string encodes, 0 when it encodes none
TraceIdOf(str) == Extract("traceparent" :> str).trace_id
CorrelationOf(message) == FromJson(message, MessageFields).value["correlation_id"]

\* C5 (post-function, stated as claimed): with tracing enabled and an
\* inbound traceparent of trace id T, the outbound call carries a
\* traceparent of trace id T and so does the published correlation_id.
C5_EndToEndLineage ==
  (InfoEnabled /\ request # None /\ WellFormed(request[1]))
  => /\ sent # None =>
          /\ "traceparent" \in DOMAIN sent[1]
          /\ TraceIdOf(sent[1]["traceparent"]) = TraceIdOf(request[1])
     /\ published # None =>
          TraceIdOf(CorrelationOf(published[1])) = TraceIdOf(request[1])

\* the span a record was processed under, by its span id
AllSpans == {cspan}
SpanById(id) == CHOOSE sp \in AllSpans : sp.span_id = id
CorrelationAt(k) == Get(batch[k][1], "correlation_id")

\* C6 (consumer, stated as claimed): with tracing enabled, once the batch
\* is handled, every record with a well-formed correlation_id (T, S) was
\* processed under a span whose parent is span S of trace T.
C6_PublishToConsumeLineage ==
  (InfoEnabled /\ cresult = "ok")
  => \A k \in DOMAIN batch :
       WellFormed(CorrelationAt(k))
       => LET sp == SpanById(recordSpan[k]) IN
            /\ sp.parent.span_id = Extract("traceparent" :> CorrelationAt(k)).span_id
            /\ sp.parent.trace_id = TraceIdOf(CorrelationAt(k))

\* C7 (consumer, stated as claimed): with tracing enabled, no span is
\* the current span of two different records of a batch.
C7_OneSpanPerRecord ==
  (InfoEnabled /\ cpc = "records")
  => \A j, k \in DOMAIN recordSpan : j # k => recordSpan[j] # recordSpan[k]

\* C8 (post-function, as stated): with a required value missing, the
\* process serves nothing and, once it has panicked, the message names a
\* missing value.
C8_MissingValueNamed ==
  Missing # {}
  => /\ ppc # "serving" /\ handled = 0 /\ hpc = "idle"
     /\ ppc = "panicked" => \E v \in Missing : panicMsg = <<v, "is required">>

\* C8 (post-function, amended): every invocation handled or in progress
\* comes after all four values were read from the environment; with a
\* value missing the process never serves and can only end panicked; a
\* panic of a configuration read names the value being read, which is the
\* first missing one in read order; any other startup panic (exporter
\* pipeline, HTTP client) happens after AGENT_ADDRESS and FUNCTION_NAME
\* were read.
C8_StartupGating ==
  /\ (ppc = "serving" \/ hpc # "idle" \/ handled > 0)
       => (config = Required /\ Required \subseteq env)
  /\ Missing # {} =>
       /\ ppc # "serving" /\ handled = 0 /\ hpc = "idle"
       /\ ~(ENABLED PostNext) => ppc = "panicked"
  /\ ppc = "panicked" =>
       \/ \E v \in Missing :
            /\ panicMsg = <<v, "is required">>
            /\ EarlierThan(v) \subseteq env
            /\ config = EarlierThan(v)
       \/ /\ panicMsg \in {<<"error starting!">>,
                           <<"called Result::unwrap() on an Err value">>}
          /\ config = {"AGENT_ADDRESS", "FUNCTION_NAME"}

\* C8 witness: QUEUE_URL alone is missing and the process has panicked
\* naming it
C8_Witness ==
  /\ Missing = {"QUEUE_URL"}
  /\ ppc = "panicked"
  /\ panicMsg = <<"QUEUE_URL", "is required">>

\* C9 (post-function, stated as claimed): an envelope is published only
\* after the downstream call succeeded with the expected status and a
\* parsable body, and every finished invocation has a defined response.
C9_AbandonOnDownstreamFailure ==
  /\ published # None =>
       /\ response.ok
       /\ response.status = StatusOk
       /\ FromJson(response.body, {"timestamp", "description"}).ok
  /\ (hpc = "idle" /\ handled > 0) => result.kind = "ok"

\* C10 (post-function): the outbound call is sent with exactly the
\* entries injected from the current span; a published envelope follows
\* that call, its correlation_id is the traceparent sent with it ("" when
\* none was injected), and its timestamp, description and id are those
\* handed to post_message.
C10_InjectedContextPublished ==
  /\ sent # None => sent[1] = Inject(span)
  /\ payload # None => sent # None
  /\ published # None =>
       /\ payload # None
       /\ LET m == FromJson(published[1], MessageFields) IN
            /\ m.ok
            /\ m.value["correlation_id"] =
                 (IF "traceparent" \in DOMAIN sent[1]
                  THEN sent[1]["traceparent"] ELSE EmptyString)
            /\ m.value["timestamp"] = payload[1].timestamp
            /\ m.value["description"] = payload[1].description
            /\ m.value["id"] = payload[1].id
            /\ payload[1].timestamp = parsed[1]["timestamp"]
            /\ payload[1].description = parsed[1]["description"]

\* C10 witness: an envelope was published carrying the injected
\* traceparent
C10_Witness ==
  /\ published # None
  /\ "traceparent" \in DOMAIN sent[1]
  /\ CorrelationOf(published[1]) = sent[1]["traceparent"]
  /\ CorrelationOf(published[1]) # EmptyString

====
